---- MODULE Spec2Model ----
(***************************************************************************)
(* NIFTY options signal bot (v7.0): the in-memory OI tracker, the          *)
(* percentage-change computations, the signal generator with its gates     *)
(* and confidence score, the signal validator and the scan loop.           *)
(*                                                                         *)
(* Units.  Clock readings are whole minutes of the trading day (09:16 is   *)
(* 556).  OI percentage changes are integers in tenths of a percent        *)
(* (-6.0% is -60).  PCR is in hundredths (0.70 is 70).  Prices, VWAP and   *)
(* ATR are in hundredths of a point (paise), the precision the analyzers   *)
(* round to.                                                               *)
(***************************************************************************)
EXTENDS Integers, Sequences, FiniteSets, TLC

VARIABLES
    now,              \* wall clock, minute of the day (datetime.now(IST))
    history,          \* InMemoryOITracker.history
    cmp,              \* result of the last InMemoryOITracker.get_comparison
    past_value,       \* percentage change: value of the past snapshot
    current_value,    \* percentage change: value of the current reading
    pct,              \* percentage change: the results of the computations
    inp,              \* keyword arguments of SignalGenerator.generate
    sig,              \* what SignalGenerator.generate returned
    last_signal,      \* SignalValidator.last_signal_time/strike/type
    candidate,        \* the Signal handed to SignalValidator.should_execute
    verdict,          \* what should_execute answered for candidate
    in_position,      \* NiftyTradingBot.in_position
    current_signal,   \* NiftyTradingBot.current_signal
    open_positions,   \* number of positions opened by PositionTracker
    is_running,       \* NiftyTradingBot.is_running
    cycle,            \* record of the last scan cycle run by the loop
    position,         \* the Position held by PositionTracker
    price_history,    \* RedisBrain.price_history
    analysis          \* the analyzer call under examination and its result

vars == <<now, history, cmp, past_value, current_value, pct, inp, sig,
          last_signal, candidate, verdict, in_position, current_signal,
          open_positions, is_running, cycle, position, price_history,
          analysis>>

trackerVars == <<now, history, cmp>>
pctVars     == <<past_value, current_value, pct>>
anaVars     == <<analysis>>
genVars     == <<inp, sig>>
valVars     == <<last_signal, candidate, verdict>>
botVars     == <<in_position, current_signal, open_positions, is_running, cycle,
                 position, price_history>>

Abs(x) == IF x < 0 THEN -x ELSE x
Min(a, b) == IF a < b THEN a ELSE b
Max(a, b) == IF a > b THEN a ELSE b

\* Python's int(): truncation toward zero of the quotient n / d, d > 0.
TruncDiv(n, d) == IF n >= 0 THEN n \div d ELSE -((-n) \div d)

(***************************************************************************)
(* Bounds of the model.                                                    *)
(***************************************************************************)
\* Length of the modelled session in minutes.
MaxMinutes == 37
\* Minutes of the tracker window that hold no snapshot or more than one.
MaxGaps == 1

\* First minute with data (config.FIRST_DATA_TIME, 09:16).
FIRST_DATA_TIME == 556

(***************************************************************************)
(* InMemoryOITracker                                                       *)
(***************************************************************************)
max_history == 20
LOOKBACK_TOLERANCE == 3
MIN_DIFF_INIT == 999

NotFound == [total_ce |-> 0, total_pe |-> 0, atm_ce |-> 0, atm_pe |-> 0,
             found |-> FALSE]

\* The snapshot dictionary built by save_snapshot.
Snapshot(t, total_ce, total_pe, atm_strike, atm_ce_oi, atm_pe_oi) ==
    [timestamp |-> t, total_ce |-> total_ce, total_pe |-> total_pe,
     atm_strike |-> atm_strike, atm_ce |-> atm_ce_oi, atm_pe |-> atm_pe_oi]

\* save_snapshot trimming with history.pop() instead of history.pop(0).
save_snapshot_pop_newest(h, t, total_ce, total_pe, atm_strike, atm_ce_oi, atm_pe_oi) ==
    LET appended == Append(h, Snapshot(t, total_ce, total_pe, atm_strike,
                                       atm_ce_oi, atm_pe_oi))
    IN  IF Len(appended) > max_history
        THEN SubSeq(appended, 1, Len(appended) - 1) ELSE appended

\* history.append(snapshot); if len(history) > max_history: history.pop(0)
save_snapshot(h, t, total_ce, total_pe, atm_strike, atm_ce_oi, atm_pe_oi) ==
    LET appended == Append(h, Snapshot(t, total_ce, total_pe, atm_strike,
                                       atm_ce_oi, atm_pe_oi))
    IN  IF Len(appended) > max_history THEN Tail(appended) ELSE appended

\* The loop of get_comparison without the "diff < min_diff" test: the last
\* snapshot within the tolerance wins, not the closest.
RECURSIVE closest_snapshot_last_within(_, _, _, _, _)
closest_snapshot_last_within(h, i, target_time, best_match, min_diff) ==
    IF i > Len(h) THEN best_match
    ELSE LET diff == Abs(h[i].timestamp - target_time)
         IN  IF diff <= LOOKBACK_TOLERANCE
             THEN closest_snapshot_last_within(h, i + 1, target_time, i, diff)
             ELSE closest_snapshot_last_within(h, i + 1, target_time,
                                               best_match, min_diff)

\* The loop of get_comparison: index of best_match, 0 for None.
RECURSIVE closest_snapshot(_, _, _, _, _)
closest_snapshot(h, i, target_time, best_match, min_diff) ==
    IF i > Len(h) THEN best_match
    ELSE LET diff == Abs(h[i].timestamp - target_time)
         IN  IF diff < min_diff /\ diff <= LOOKBACK_TOLERANCE
             THEN closest_snapshot(h, i + 1, target_time, i, diff)
             ELSE closest_snapshot(h, i + 1, target_time, best_match, min_diff)

get_comparison(h, t, minutes_ago) ==
    IF Len(h) < 2 THEN NotFound
    ELSE LET target_time == t - minutes_ago
             best_match == closest_snapshot(h, 1, target_time, 0, MIN_DIFF_INIT)
         IN  IF best_match = 0 THEN NotFound
             ELSE [total_ce |-> h[best_match].total_ce,
                   total_pe |-> h[best_match].total_pe,
                   atm_ce   |-> h[best_match].atm_ce,
                   atm_pe   |-> h[best_match].atm_pe,
                   found    |-> TRUE]

\* is_ready(minutes): enough history since the oldest retained snapshot.
is_ready(h, t, minutes) ==
    IF Len(h) < 2 THEN FALSE ELSE (t - h[1].timestamp) >= minutes

(***************************************************************************)
(* The tracker driven on its own: a clock, snapshots saved in clock order  *)
(* and lookbacks at the horizons the scan cycle uses.                      *)
(***************************************************************************)
Lookbacks == {5, 15, 30}

NoComparison == [minutes_ago |-> 0, total_ce |-> 0, total_pe |-> 0,
                 atm_ce |-> 0, atm_pe |-> 0, found |-> FALSE]

\* The option-chain totals read at minute t: open interest unwinds by one
\* block a minute, so that every minute's reading is recognisable.
ReadingAt(t) ==
    LET k == t - FIRST_DATA_TIME
    IN  [total_ce |-> 100000 - 100 * k, total_pe |-> 90000 - 50 * k,
         atm_strike |-> 24150,
         atm_ce |-> 20000 - 20 * k, atm_pe |-> 18000 - 10 * k]

SnapshotsAt(h, t) == Cardinality({i \in 1..Len(h) : h[i].timestamp = t})

\* Minutes from the oldest retained snapshot up to (not including) minute t
\* that do not hold exactly one snapshot.
Irregular(h, t) ==
    IF Len(h) = 0 THEN 0
    ELSE Cardinality({m \in h[1].timestamp..(t - 1) : SnapshotsAt(h, m) # 1})

TrackerIdle ==
    /\ now = FIRST_DATA_TIME
    /\ history = <<>>
    /\ cmp = NoComparison

TrackerTick ==
    /\ Len(history) > 0
    /\ now < FIRST_DATA_TIME + MaxMinutes
    /\ Irregular(history, now + 1) <= MaxGaps
    /\ now' = now + 1
    /\ cmp' = NoComparison
    /\ UNCHANGED history
    /\ UNCHANGED <<pctVars, anaVars, genVars, valVars, botVars>>

TrackerSave ==
    /\ \/ SnapshotsAt(history, now) = 0
       \/ /\ SnapshotsAt(history, now) = 1
          /\ Irregular(history, now) < MaxGaps
    /\ LET r == ReadingAt(now)
       IN  history' = save_snapshot(history, now, r.total_ce, r.total_pe,
                                    r.atm_strike, r.atm_ce, r.atm_pe)
    /\ cmp' = NoComparison
    /\ UNCHANGED now
    /\ UNCHANGED <<pctVars, anaVars, genVars, valVars, botVars>>

TrackerCompare ==
    /\ \E m \in Lookbacks :
          LET r == get_comparison(history, now, m)
          IN  cmp' = [minutes_ago |-> m, total_ce |-> r.total_ce,
                      total_pe |-> r.total_pe, atm_ce |-> r.atm_ce,
                      atm_pe |-> r.atm_pe, found |-> r.found]
    /\ UNCHANGED <<now, history>>
    /\ UNCHANGED <<pctVars, anaVars, genVars, valVars, botVars>>

TrackerNext == TrackerTick \/ TrackerSave \/ TrackerCompare

(***************************************************************************)
(* Values the variables of the other components keep while one component   *)
(* is driven on its own.                                                   *)
(***************************************************************************)
NoSignal ==
    [signal_type |-> "NONE", timestamp |-> 0, entry_price |-> 0,
     target_price |-> 0, stop_loss |-> 0, recommended_strike |-> 0,
     confidence |-> 0, primary_checks |-> 0, bonus_checks |-> 0,
     vwap_score |-> 0, velocity |-> "NONE", is_expiry_day |-> FALSE]

\* generate has not been called on the inputs yet.
PendingSignal == [NoSignal EXCEPT !.signal_type = "PENDING"]
\* The call left through an exception instead of returning.
RaisedSignal == [NoSignal EXCEPT !.signal_type = "RAISED"]

NoPct == [fn |-> "none", value |-> 0]

NoAnalysis == [fn |-> "none", args |-> <<>>, done |-> FALSE, result |-> <<>>]

NoLastSignal == [recorded |-> FALSE, time |-> 0, strike |-> 0, type |-> "NONE"]

\* No scan cycle has run yet.
NoCycle ==
    [phase |-> "init", outcome |-> "NONE", started_in_position |-> FALSE,
     executed |-> FALSE]

PctIdle == past_value = 0 /\ current_value = 0 /\ pct = NoPct
AnaIdle == analysis = NoAnalysis
GenIdle == inp = <<>> /\ sig = PendingSignal
ValIdle == last_signal = NoLastSignal /\ candidate = NoSignal /\ verdict = "NONE"
\* PositionTracker holds no position.
NoPosition ==
    [open |-> FALSE, signal_type |-> "NONE", entry_price |-> 0,
     target_price |-> 0, stop_loss |-> 0, price |-> 0, close_reason |-> "NONE"]

BotIdle ==
    /\ in_position = FALSE
    /\ current_signal = NoSignal
    /\ open_positions = 0
    /\ is_running = FALSE
    /\ cycle = NoCycle
    /\ position = NoPosition
    /\ price_history = <<>>

TrackerInit == TrackerIdle /\ PctIdle /\ AnaIdle /\ GenIdle /\ ValIdle /\ BotIdle

SpecTracker == TrackerInit /\ [][TrackerNext]_vars

\* The snapshots of h within the tolerance of the lookback target.
Qualifying(h, t, m) ==
    {i \in 1..Len(h) : Abs(h[i].timestamp - (t - m)) <= LOOKBACK_TOLERANCE}

\* The comparison returned the values of a snapshot closest to the target.
ReturnsClosest(h, t, c) ==
    \E i \in Qualifying(h, t, c.minutes_ago) :
        /\ c.total_ce = h[i].total_ce /\ c.total_pe = h[i].total_pe
        /\ c.atm_ce = h[i].atm_ce /\ c.atm_pe = h[i].atm_pe
        /\ \A j \in 1..Len(h) :
              Abs(h[i].timestamp - (t - c.minutes_ago))
                 <= Abs(h[j].timestamp - (t - c.minutes_ago))

TiedClosest(h, t, m, i, j) ==
    /\ h[i].timestamp < h[j].timestamp
    /\ Abs(h[i].timestamp - (t - m)) = Abs(h[j].timestamp - (t - m))
    /\ Abs(h[j].timestamp - (t - m)) <= LOOKBACK_TOLERANCE
    /\ \A k \in 1..Len(h) :
          Abs(h[k].timestamp - (t - m)) >= Abs(h[j].timestamp - (t - m))

\* C17 (as stated): when two stored snapshots are at exactly the same
\* distance from the lookback target and no snapshot is closer,
\* get_comparison returns the values of the more recent of the two.
C17_TieBreakPrefersRecent ==
    cmp.minutes_ago # 0 =>
        \A i, j \in 1..Len(history) :
            TiedClosest(history, now, cmp.minutes_ago, i, j) =>
                /\ cmp.found
                /\ cmp.total_ce = history[j].total_ce
                /\ cmp.total_pe = history[j].total_pe
                /\ cmp.atm_ce = history[j].atm_ce
                /\ cmp.atm_pe = history[j].atm_pe

(***************************************************************************)
(* The tracker at the cadence of the scan loop: every minute one lookback  *)
(* round and then one save, as scan_market does.                           *)
(***************************************************************************)
CadenceSave ==
    /\ SnapshotsAt(history, now) = 0
    /\ LET r == ReadingAt(now)
       IN  history' = save_snapshot(history, now, r.total_ce, r.total_pe,
                                    r.atm_strike, r.atm_ce, r.atm_pe)
    /\ cmp' = NoComparison
    /\ UNCHANGED now
    /\ UNCHANGED <<pctVars, anaVars, genVars, valVars, botVars>>

CadenceTick ==
    /\ SnapshotsAt(history, now) = 1
    /\ now < FIRST_DATA_TIME + MaxMinutes
    /\ now' = now + 1
    /\ cmp' = NoComparison
    /\ UNCHANGED history
    /\ UNCHANGED <<pctVars, anaVars, genVars, valVars, botVars>>

CadenceCompare ==
    /\ SnapshotsAt(history, now) = 0
    /\ \E m \in Lookbacks :
          LET r == get_comparison(history, now, m)
          IN  cmp' = [minutes_ago |-> m, total_ce |-> r.total_ce,
                      total_pe |-> r.total_pe, atm_ce |-> r.atm_ce,
                      atm_pe |-> r.atm_pe, found |-> r.found]
    /\ UNCHANGED <<now, history>>
    /\ UNCHANGED <<pctVars, anaVars, genVars, valVars, botVars>>

CadenceNext == CadenceSave \/ CadenceTick \/ CadenceCompare

SpecCadence == TrackerInit /\ [][CadenceNext]_vars

\* C18 (as stated): once a snapshot has been saved in each of at least 35
\* consecutive minutes, the 30-minute lookback of the next scan cycle finds
\* a snapshot.
C18_WindowCoversThirtyMinutes ==
    (/\ cmp.minutes_ago = 30
     /\ SnapshotsAt(history, now) = 0
     /\ now - FIRST_DATA_TIME >= 35) => cmp.found

(***************************************************************************)
(* OI percentage change.  Results are in tenths of a percent, rounded to   *)
(* the nearest tenth (RedisBrain rounds its result to one decimal).        *)
(***************************************************************************)
\* n / d rounded to the nearest integer, d > 0.
RoundDiv(n, d) ==
    IF n >= 0 THEN (2 * n + d) \div (2 * d) ELSE -((2 * (-n) + d) \div (2 * d))

\* scan_market: ((current - prev) / prev * 100) if prev > 0 else 0.0
scan_oi_change(current, prev) ==
    IF prev > 0 THEN RoundDiv((current - prev) * 1000, prev) ELSE 0

\* RedisBrain.get_total_oi_change, one side, past snapshot found.
redis_oi_change(current, past) ==
    IF past = 0
    THEN (IF current > 0 THEN 1000 ELSE 0)
    ELSE RoundDiv((current - past) * 1000, past)

\* utils.calculate_percentage_change(old_value, new_value)
calculate_percentage_change(old_value, new_value) ==
    IF old_value = 0 THEN 0
    ELSE RoundDiv((new_value - old_value) * 1000, old_value)

\* Open-interest totals of the past snapshot and of the current reading.
OIValues == {0, 1, 50, 100, 500, 900, 940, 1000, 1100, 2000}

PctInit ==
    /\ past_value \in OIValues
    /\ current_value \in OIValues
    /\ pct = NoPct
    /\ TrackerIdle /\ GenIdle /\ ValIdle /\ BotIdle /\ AnaIdle

PctScan ==
    /\ pct' = [fn |-> "scan_market",
               value |-> scan_oi_change(current_value, past_value)]
    /\ UNCHANGED <<past_value, current_value>>
    /\ UNCHANGED <<trackerVars, genVars, valVars, botVars, anaVars>>

PctRedis ==
    /\ pct' = [fn |-> "get_total_oi_change",
               value |-> redis_oi_change(current_value, past_value)]
    /\ UNCHANGED <<past_value, current_value>>
    /\ UNCHANGED <<trackerVars, genVars, valVars, botVars, anaVars>>

PctUtils ==
    /\ pct' = [fn |-> "calculate_percentage_change",
               value |-> calculate_percentage_change(past_value, current_value)]
    /\ UNCHANGED <<past_value, current_value>>
    /\ UNCHANGED <<trackerVars, genVars, valVars, botVars, anaVars>>

PctNext == PctScan \/ PctRedis \/ PctUtils

SpecPct == PctInit /\ [][PctNext]_vars

\* C9: every OI percentage-change computation yields exactly +100% when the
\* past value is 0 and the current value is positive, and exactly 0% when
\* both are 0.
C9_ZeroPastPolicy ==
    pct.fn # "none" =>
        /\ (past_value = 0 /\ current_value > 0) => pct.value = 1000
        /\ (past_value = 0 /\ current_value = 0) => pct.value = 0

(***************************************************************************)
(* SignalValidator                                                         *)
(***************************************************************************)
SAME_STRIKE_COOLDOWN_MINUTES == 10
SAME_DIRECTION_COOLDOWN_MINUTES == 3

\* should_execute with the same-strike rule left out.
should_execute_global_only(last, signal) ==
    IF ~last.recorded THEN "First signal"
    ELSE LET time_since_last == signal.timestamp - last.time
         IN  IF time_since_last < SAME_DIRECTION_COOLDOWN_MINUTES
             THEN "Cooldown"
             ELSE "Validation passed"

\* SignalValidator.should_execute: the reason it returns; the signal is
\* accepted for the reasons listed in Accepted.
should_execute(last, signal) ==
    IF ~last.recorded THEN "First signal"
    ELSE LET time_since_last == signal.timestamp - last.time
         IN  IF time_since_last < SAME_DIRECTION_COOLDOWN_MINUTES
             THEN "Cooldown"
             ELSE IF /\ signal.recommended_strike = last.strike
                     /\ signal.signal_type = last.type
                     /\ time_since_last < SAME_STRIKE_COOLDOWN_MINUTES
                  THEN "Same strike cooldown"
                  ELSE "Validation passed"

Accepted(reason) == reason \in {"First signal", "Validation passed"}

\* SignalValidator.record_signal
record_signal(signal) ==
    [recorded |-> TRUE, time |-> signal.timestamp,
     strike |-> signal.recommended_strike, type |-> signal.signal_type]

\* Candidate signals: direction and recommended strike, stamped with the
\* clock reading of their generation.
Directions == {"CE_BUY", "PE_BUY"}
Strikes == {24150, 24200}

CandidateSignal(d, k, t) ==
    [NoSignal EXCEPT !.signal_type = d, !.recommended_strike = k,
                     !.timestamp = t, !.confidence = 80]

ValInit ==
    /\ now = FIRST_DATA_TIME
    /\ history = <<>> /\ cmp = NoComparison
    /\ ValIdle /\ PctIdle /\ AnaIdle /\ GenIdle /\ BotIdle

ValTick ==
    /\ now < FIRST_DATA_TIME + MaxMinutes
    /\ now' = now + 1
    /\ candidate' = NoSignal
    /\ verdict' = "NONE"
    /\ UNCHANGED <<last_signal, history, cmp>>
    /\ UNCHANGED <<pctVars, anaVars, genVars, botVars>>

ValCheck ==
    /\ \E d \in Directions, k \in Strikes :
          /\ candidate' = CandidateSignal(d, k, now)
          /\ verdict' = should_execute(last_signal, candidate')
    /\ UNCHANGED <<last_signal, trackerVars>>
    /\ UNCHANGED <<pctVars, anaVars, genVars, botVars>>

ValRecord ==
    /\ Accepted(verdict)
    /\ last_signal' = record_signal(candidate)
    /\ candidate' = NoSignal
    /\ verdict' = "NONE"
    /\ UNCHANGED trackerVars
    /\ UNCHANGED <<pctVars, anaVars, genVars, botVars>>

ValNext == ValTick \/ ValCheck \/ ValRecord

SpecVal == ValInit /\ [][ValNext]_vars

\* C4: should_execute accepts a candidate if and only if no signal has been
\* recorded yet, or the time since the last recorded signal is at least the
\* global cooldown and the candidate is not a repeat of the last direction and
\* strike inside the same-strike cooldown.
C4_CooldownRule ==
    candidate.signal_type # "NONE" =>
        LET since == candidate.timestamp - last_signal.time
        IN  Accepted(verdict) <=>
              \/ ~last_signal.recorded
              \/ /\ since >= 3
                 /\ ~(/\ candidate.signal_type = last_signal.type
                      /\ candidate.recommended_strike = last_signal.strike
                      /\ since < SAME_STRIKE_COOLDOWN_MINUTES)

\* After a recorded CE_BUY at 24150 an identical candidate arrives past the
\* global cooldown but inside the same-strike cooldown, and is rejected.
C4_Witness ==
    /\ last_signal.recorded
    /\ last_signal.type = "CE_BUY" /\ last_signal.strike = 24150
    /\ candidate.signal_type = "CE_BUY" /\ candidate.recommended_strike = 24150
    /\ candidate.timestamp - last_signal.time = 5
    /\ ~Accepted(verdict)

(***************************************************************************)
(* Configuration (config.py), in the units of the model.                   *)
(***************************************************************************)
MIN_OI_5M_FOR_ENTRY == 20
MIN_OI_15M_FOR_ENTRY == 25
MIN_OI_30M_FOR_ENTRY == 30
STRONG_OI_5M_THRESHOLD == 35
STRONG_OI_15M_THRESHOLD == 50
ATM_OI_THRESHOLD == 30
VELOCITY_ACCELERATION_MIN == 50
VELOCITY_ACCELERATION_STRONG == 80
VELOCITY_DECELERATION_MIN == 50
VELOCITY_MONSTER_15M == 80
VELOCITY_MONSTER_30M == 80
VELOCITY_EXHAUSTION_30M == 60
VELOCITY_EXHAUSTION_15M == 20
VOL_SPIKE_STRONG == 300
PCR_BULLISH == 120
PCR_BEARISH == 80
PCR_OVERHEATED == 70
PCR_BALANCED_BULL == 90
PCR_NEUTRAL_HIGH == 110
PCR_BALANCED_BEAR == 130
ATR_TARGET_MULTIPLIER == 25
ATR_SL_MULTIPLIER == 15
ATR_SL_GAMMA_MULTIPLIER == 20
VWAP_DISTANCE_MAX_ATR_MULTIPLE == 3
MIN_VWAP_SCORE == 70
MIN_CANDLE_SIZE == 500
MIN_PRIMARY_CHECKS == 2
MIN_CONFIDENCE == 70
OTM_RESISTANCE_OFFSET == 100
OTM_SUPPORT_OFFSET == 100
OTM_HIGH_OI_THRESHOLD == 1000000
REVERSAL_THRESHOLD == 50
TRAP_SPIKE == 80
TRAP_FLAT == 20
BUFFER_TIME == 900
BASE_CONFIDENCE == 40
MAX_CONFIDENCE == 98

BoolInt(b) == IF b THEN 1 ELSE 0

(***************************************************************************)
(* Analyzers used by the signal generator.                                 *)
(***************************************************************************)
\* signal_engine.get_pcr_bias
get_pcr_bias(pcr) ==
    IF pcr < PCR_OVERHEATED THEN [bias |-> "OVERHEATED", modifier |-> -10]
    ELSE IF pcr < PCR_BALANCED_BULL THEN [bias |-> "BULLISH", modifier |-> 5]
    ELSE IF pcr < PCR_NEUTRAL_HIGH THEN [bias |-> "NEUTRAL", modifier |-> 0]
    ELSE IF pcr < PCR_BALANCED_BEAR THEN [bias |-> "BEARISH", modifier |-> 5]
    ELSE [bias |-> "OVERSOLD", modifier |-> -10]

\* detect_reversal with the threshold compared by >= 6% instead of > 5%.
detect_reversal_six_percent(atm_ce_15m, atm_pe_15m, has_data) ==
    /\ has_data
    /\ Abs(atm_ce_15m) >= 60
    /\ Abs(atm_pe_15m) >= 60
    /\ atm_ce_15m < 0 /\ atm_pe_15m < 0

\* signal_engine.detect_reversal
detect_reversal(atm_ce_15m, atm_pe_15m, has_data) ==
    /\ has_data
    /\ Abs(atm_ce_15m) > REVERSAL_THRESHOLD
    /\ Abs(atm_pe_15m) > REVERSAL_THRESHOLD
    /\ atm_ce_15m < 0 /\ atm_pe_15m < 0

\* detect_trap that only knows the bear trap.
detect_trap_bear_only(ce_15m, pe_15m, has_data) ==
    /\ has_data
    /\ Abs(pe_15m) > TRAP_SPIKE /\ Abs(ce_15m) < TRAP_FLAT

\* signal_engine.detect_trap
detect_trap(ce_15m, pe_15m, has_data) ==
    /\ has_data
    /\ \/ Abs(ce_15m) > TRAP_SPIKE /\ Abs(pe_15m) < TRAP_FLAT
       \/ Abs(pe_15m) > TRAP_SPIKE /\ Abs(ce_15m) < TRAP_FLAT

\* signal_engine.check_market_timing at clock reading t.  Inside the buffer
\* the code subtracts the timezone-aware now from the naive
\* datetime.combine(now.date(), close_time), which raises TypeError before
\* anything is returned.
check_market_timing(t) == IF t >= BUFFER_TIME THEN "TypeError" ELSE "OK"

\* classify_oi_velocity whose deceleration test is abs_30m >= abs_15m.
classify_oi_velocity_decel_on_equal(oi_5m, oi_15m, oi_30m, has_30m) ==
    IF ~has_30m
    THEN [pattern |-> "UNKNOWN", strength |-> "none", confidence |-> 0]
    ELSE LET abs_15m == Abs(oi_15m)
             abs_30m == Abs(oi_30m)
         IN  IF abs_15m > abs_30m /\ abs_15m > VELOCITY_ACCELERATION_MIN
             THEN IF abs_15m > VELOCITY_ACCELERATION_STRONG
                  THEN [pattern |-> "ACCELERATION", strength |-> "strong",
                        confidence |-> 15]
                  ELSE [pattern |-> "ACCELERATION", strength |-> "medium",
                        confidence |-> 10]
             ELSE IF abs_30m >= abs_15m /\ abs_30m > VELOCITY_DECELERATION_MIN
             THEN [pattern |-> "DECELERATION", strength |-> "weak",
                   confidence |-> -10]
             ELSE [pattern |-> "NORMAL", strength |-> "none", confidence |-> 0]

\* OIAnalyzer.classify_oi_velocity (the description string is left out)
classify_oi_velocity(oi_5m, oi_15m, oi_30m, has_30m) ==
    IF ~has_30m
    THEN [pattern |-> "UNKNOWN", strength |-> "none", confidence |-> 0]
    ELSE LET abs_15m == Abs(oi_15m)
             abs_30m == Abs(oi_30m)
         IN  IF abs_15m > abs_30m /\ abs_15m > VELOCITY_ACCELERATION_MIN
             THEN IF abs_15m > VELOCITY_ACCELERATION_STRONG
                  THEN [pattern |-> "ACCELERATION", strength |-> "strong",
                        confidence |-> 15]
                  ELSE [pattern |-> "ACCELERATION", strength |-> "medium",
                        confidence |-> 10]
             ELSE IF abs_30m > abs_15m /\ abs_30m > VELOCITY_DECELERATION_MIN
             THEN [pattern |-> "DECELERATION", strength |-> "weak",
                   confidence |-> -10]
             ELSE IF abs_15m > VELOCITY_MONSTER_15M /\ abs_30m > VELOCITY_MONSTER_30M
             THEN [pattern |-> "MONSTER_LOADING", strength |-> "strong",
                   confidence |-> 20]
             ELSE IF abs_30m > VELOCITY_EXHAUSTION_30M /\ abs_15m < VELOCITY_EXHAUSTION_15M
             THEN [pattern |-> "EXHAUSTION", strength |-> "weak",
                   confidence |-> -15]
             ELSE [pattern |-> "NORMAL", strength |-> "none", confidence |-> 0]

\* strike_data.get(strike, {}).get(field, 0)
StrikeOI(strike_data, strike, field) ==
    IF strike \in DOMAIN strike_data THEN strike_data[strike][field] ELSE 0

\* OIAnalyzer.analyze_otm_levels: the confidence modifier
analyze_otm_levels(strike_data, atm_strike, signal_type) ==
    LET above_ce_oi == StrikeOI(strike_data, atm_strike + OTM_RESISTANCE_OFFSET, "ce_oi")
        below_pe_oi == StrikeOI(strike_data, atm_strike - OTM_SUPPORT_OFFSET, "pe_oi")
    IN  IF signal_type = "CE_BUY"
        THEN (IF below_pe_oi > OTM_HIGH_OI_THRESHOLD THEN 10 ELSE 0)
             - (IF above_ce_oi > OTM_HIGH_OI_THRESHOLD THEN 10 ELSE 0)
        ELSE IF signal_type = "PE_BUY"
        THEN (IF above_ce_oi > OTM_HIGH_OI_THRESHOLD THEN 10 ELSE 0)
             - (IF below_pe_oi > OTM_HIGH_OI_THRESHOLD THEN 10 ELSE 0)
        ELSE 0

\* TechnicalAnalyzer.validate_signal_with_vwap (VWAP_STRICT_MODE is True).
\* int(score) of the positive score is its floor, taken on the exact quotient.
validate_signal_with_vwap(signal_type, spot, vwap, atr) ==
    IF vwap = 0 \/ spot = 0 \/ atr = 0 THEN [valid |-> FALSE, score |-> 0]
    ELSE LET distance == spot - vwap
             buffer == atr * VWAP_DISTANCE_MAX_ATR_MULTIPLE
         IN  IF signal_type = "CE_BUY"
             THEN IF distance < -buffer THEN [valid |-> FALSE, score |-> 0]
                  ELSE IF distance > buffer * 3 THEN [valid |-> FALSE, score |-> 0]
                  ELSE IF distance > 0
                  THEN [valid |-> TRUE,
                        score |-> Min(100, 80 + ((distance * 20) \div buffer))]
                  ELSE [valid |-> TRUE,
                        score |-> Max(60, (80 * buffer - Abs(distance) * 20) \div buffer)]
             ELSE IF signal_type = "PE_BUY"
             THEN IF distance > 0 THEN [valid |-> FALSE, score |-> 0]
                  ELSE IF distance > buffer THEN [valid |-> FALSE, score |-> 0]
                  ELSE IF distance < -(buffer * 3) THEN [valid |-> FALSE, score |-> 0]
                  ELSE IF distance < 0
                  THEN [valid |-> TRUE,
                        score |-> Min(100, 80 + ((Abs(distance) * 20) \div buffer))]
                  ELSE [valid |-> TRUE,
                        score |-> Max(60, (80 * buffer - distance * 20) \div buffer)]
             ELSE [valid |-> FALSE, score |-> 0]

\* 'BULLISH' in s, 'BEARISH' in s, 'STRONG' in s for the signal names that
\* analyze_oi_with_price produces.
HasBullish(s) == s \in {"BULLISH", "STRONG_BULLISH", "WEAK_BULLISH"}
HasBearish(s) == s \in {"BEARISH", "STRONG_BEARISH", "WEAK_BEARISH"}
HasStrong(s) == s \in {"STRONG_BULLISH", "STRONG_BEARISH"}

(***************************************************************************)
(* SignalGenerator                                                         *)
(***************************************************************************)
\* _check_ce_buy: the OI scenario boost
ce_oi_scenario_boost(i) ==
    IF ~i.oi_scenario.present THEN 0
    ELSE IF HasBullish(i.oi_scenario.primary_direction) \/ HasBullish(i.oi_scenario.ce_signal)
         THEN (IF HasStrong(i.oi_scenario.ce_signal) THEN 15 ELSE 5)
         ELSE 0

\* The multi-timeframe check of _check_ce_buy without its has_*_total flags.
ce_primary_ignores_lookbacks(i) ==
    /\ i.ce_total_15m < -MIN_OI_15M_FOR_ENTRY
    /\ i.ce_total_5m < -MIN_OI_5M_FOR_ENTRY

\* _check_ce_buy: the primary checks
ce_primary(i) ==
    /\ i.ce_total_15m < -MIN_OI_15M_FOR_ENTRY
    /\ i.ce_total_5m < -MIN_OI_5M_FOR_ENTRY
    /\ i.has_15m_total /\ i.has_5m_total

ce_primary_atm(i) == i.atm_ce_15m < -ATM_OI_THRESHOLD /\ i.has_15m_atm

ce_primary_passed(i) ==
    BoolInt(ce_primary(i)) + BoolInt(ce_primary_atm(i)) + BoolInt(i.volume_spike)

\* _check_ce_buy: the bonus checks
ce_bonus_passed(i) ==
    BoolInt(i.ce_total_5m < -STRONG_OI_5M_THRESHOLD /\ i.has_5m_total)
    + BoolInt(i.candle_size >= MIN_CANDLE_SIZE)
    + BoolInt(i.vwap_distance > 0)
    + BoolInt(i.pcr > PCR_BULLISH)
    + BoolInt(i.consecutive_green >= 2)
    + BoolInt(i.order_flow < 100)
    + BoolInt(i.multi_tf)
    + BoolInt(i.gamma_zone)
    + BoolInt(i.volume_ratio >= VOL_SPIKE_STRONG)
    + BoolInt(i.has_30m_total /\ i.ce_total_30m < -MIN_OI_30M_FOR_ENTRY)

ce_velocity(i) ==
    classify_oi_velocity(i.ce_total_5m, i.ce_total_15m, i.ce_total_30m,
                         i.has_30m_total)

ce_vwap(i) == validate_signal_with_vwap("CE_BUY", i.futures_price, i.vwap, i.atr)

\* The gates of _check_ce_buy without the velocity gate.
ce_gate_without_velocity(i) ==
    IF i.futures_price <= i.vwap THEN "VWAP_SIDE"
    ELSE IF ce_vwap(i).score < MIN_VWAP_SCORE THEN "VWAP_SCORE"
    ELSE IF ~ce_vwap(i).valid THEN "VWAP_INVALID"
    ELSE IF ce_primary_passed(i) < MIN_PRIMARY_CHECKS THEN "QUORUM"
    ELSE "PASS"

\* The gates of _check_ce_buy with the side gate written futures_price < vwap.
ce_gate_strict_side(i) ==
    IF i.futures_price < i.vwap THEN "VWAP_SIDE"
    ELSE IF ce_vwap(i).score < MIN_VWAP_SCORE THEN "VWAP_SCORE"
    ELSE IF ~ce_vwap(i).valid THEN "VWAP_INVALID"
    ELSE IF ce_velocity(i).pattern \in {"DECELERATION", "EXHAUSTION"} THEN "VELOCITY"
    ELSE IF ce_primary_passed(i) < MIN_PRIMARY_CHECKS THEN "QUORUM"
    ELSE "PASS"

\* _check_ce_buy: the gates in the order of the code; "PASS" when none rejects.
ce_gate(i) ==
    IF i.futures_price <= i.vwap THEN "VWAP_SIDE"
    ELSE IF ce_vwap(i).score < MIN_VWAP_SCORE THEN "VWAP_SCORE"
    ELSE IF ~ce_vwap(i).valid THEN "VWAP_INVALID"
    ELSE IF ce_velocity(i).pattern \in {"DECELERATION", "EXHAUSTION"} THEN "VELOCITY"
    ELSE IF ce_primary_passed(i) < MIN_PRIMARY_CHECKS THEN "QUORUM"
    ELSE "PASS"

\* The confidence of _check_ce_buy with the VWAP term int(vwap_score / 10).
ce_confidence_sum_vwap_tenth(i) ==
    BASE_CONFIDENCE
    + (IF ce_primary(i) THEN (IF i.oi_strength = "strong" THEN 25 ELSE 20) ELSE 0)
    + (IF ce_primary_atm(i) THEN 20 ELSE 0)
    + (IF i.volume_spike THEN 15 ELSE 0)
    + TruncDiv(ce_vwap(i).score, 10)
    + ce_velocity(i).confidence
    + analyze_otm_levels(i.strike_data, i.atm_strike, "CE_BUY")
    + ce_oi_scenario_boost(i)
    + get_pcr_bias(i.pcr).modifier
    + Min(ce_bonus_passed(i) * 2, 15)

\* _check_ce_buy: the confidence before the cap
ce_confidence_sum(i) ==
    BASE_CONFIDENCE
    + (IF ce_primary(i) THEN (IF i.oi_strength = "strong" THEN 25 ELSE 20) ELSE 0)
    + (IF ce_primary_atm(i) THEN 20 ELSE 0)
    + (IF i.volume_spike THEN 15 ELSE 0)
    + TruncDiv(ce_vwap(i).score, 5)
    + ce_velocity(i).confidence
    + analyze_otm_levels(i.strike_data, i.atm_strike, "CE_BUY")
    + ce_oi_scenario_boost(i)
    + get_pcr_bias(i.pcr).modifier
    + Min(ce_bonus_passed(i) * 2, 15)

\* The confidence of _check_ce_buy without the cap.
ce_confidence_uncapped(i) == ce_confidence_sum(i)

\* confidence = min(confidence, 98)
ce_confidence(i) == Min(ce_confidence_sum(i), MAX_CONFIDENCE)

\* _check_ce_buy: the levels; int(atr * multiplier) is in whole points
ce_levels(i) ==
    LET sl_mult == IF i.gamma_zone THEN ATR_SL_GAMMA_MULTIPLIER ELSE ATR_SL_MULTIPLIER
        entry == i.futures_price
    IN  [entry |-> entry,
         target |-> entry + 100 * TruncDiv(i.atr * ATR_TARGET_MULTIPLIER, 1000),
         sl |-> entry - 100 * TruncDiv(i.atr * sl_mult, 1000)]

\* SignalGenerator._check_ce_buy at clock reading t
check_ce_buy(i, t) ==
    IF ce_gate(i) # "PASS" THEN NoSignal
    ELSE IF ce_confidence(i) < MIN_CONFIDENCE THEN NoSignal
    ELSE [signal_type |-> "CE_BUY", timestamp |-> t,
          entry_price |-> ce_levels(i).entry,
          target_price |-> ce_levels(i).target,
          stop_loss |-> ce_levels(i).sl,
          recommended_strike |-> i.atm_strike,
          confidence |-> ce_confidence(i),
          primary_checks |-> ce_primary_passed(i),
          bonus_checks |-> ce_bonus_passed(i),
          vwap_score |-> ce_vwap(i).score,
          velocity |-> ce_velocity(i).pattern,
          is_expiry_day |-> i.gamma_zone]

\* _check_pe_buy: the OI scenario boost
pe_oi_scenario_boost(i) ==
    IF ~i.oi_scenario.present THEN 0
    ELSE IF HasBearish(i.oi_scenario.primary_direction) \/ HasBearish(i.oi_scenario.pe_signal)
         THEN (IF HasStrong(i.oi_scenario.pe_signal) THEN 15 ELSE 5)
         ELSE 0

\* _check_pe_buy: the primary checks
pe_primary(i) ==
    /\ i.pe_total_15m < -MIN_OI_15M_FOR_ENTRY
    /\ i.pe_total_5m < -MIN_OI_5M_FOR_ENTRY
    /\ i.has_15m_total /\ i.has_5m_total

pe_primary_atm(i) == i.atm_pe_15m < -ATM_OI_THRESHOLD /\ i.has_15m_atm

pe_primary_passed(i) ==
    BoolInt(pe_primary(i)) + BoolInt(pe_primary_atm(i)) + BoolInt(i.volume_spike)

\* _check_pe_buy: the bonus checks
pe_bonus_passed(i) ==
    BoolInt(i.pe_total_5m < -STRONG_OI_5M_THRESHOLD /\ i.has_5m_total)
    + BoolInt(i.candle_size >= MIN_CANDLE_SIZE)
    + BoolInt(i.vwap_distance < 0)
    + BoolInt(i.pcr < PCR_BEARISH)
    + BoolInt(i.consecutive_red >= 2)
    + BoolInt(i.order_flow > 100)
    + BoolInt(i.multi_tf)
    + BoolInt(i.gamma_zone)
    + BoolInt(i.volume_ratio >= VOL_SPIKE_STRONG)
    + BoolInt(i.has_30m_total /\ i.pe_total_30m < -MIN_OI_30M_FOR_ENTRY)

pe_velocity(i) ==
    classify_oi_velocity(i.pe_total_5m, i.pe_total_15m, i.pe_total_30m,
                         i.has_30m_total)

pe_vwap(i) == validate_signal_with_vwap("PE_BUY", i.futures_price, i.vwap, i.atr)

\* _check_pe_buy: the gates in the order of the code; "PASS" when none rejects.
pe_gate(i) ==
    IF i.futures_price >= i.vwap THEN "VWAP_SIDE"
    ELSE IF pe_vwap(i).score < MIN_VWAP_SCORE THEN "VWAP_SCORE"
    ELSE IF ~pe_vwap(i).valid THEN "VWAP_INVALID"
    ELSE IF pe_velocity(i).pattern \in {"DECELERATION", "EXHAUSTION"} THEN "VELOCITY"
    ELSE IF pe_primary_passed(i) < MIN_PRIMARY_CHECKS THEN "QUORUM"
    ELSE "PASS"

\* _check_pe_buy: the confidence before the cap
pe_confidence_sum(i) ==
    BASE_CONFIDENCE
    + (IF pe_primary(i) THEN (IF i.oi_strength = "strong" THEN 25 ELSE 20) ELSE 0)
    + (IF pe_primary_atm(i) THEN 20 ELSE 0)
    + (IF i.volume_spike THEN 15 ELSE 0)
    + TruncDiv(pe_vwap(i).score, 5)
    + pe_velocity(i).confidence
    + analyze_otm_levels(i.strike_data, i.atm_strike, "PE_BUY")
    + pe_oi_scenario_boost(i)
    + get_pcr_bias(i.pcr).modifier
    + Min(pe_bonus_passed(i) * 2, 15)

\* confidence = min(confidence, 98)
pe_confidence(i) == Min(pe_confidence_sum(i), MAX_CONFIDENCE)

\* _check_pe_buy: the levels; int(atr * multiplier) is in whole points
pe_levels(i) ==
    LET sl_mult == IF i.gamma_zone THEN ATR_SL_GAMMA_MULTIPLIER ELSE ATR_SL_MULTIPLIER
        entry == i.futures_price
    IN  [entry |-> entry,
         target |-> entry - 100 * TruncDiv(i.atr * ATR_TARGET_MULTIPLIER, 1000),
         sl |-> entry + 100 * TruncDiv(i.atr * sl_mult, 1000)]

\* SignalGenerator._check_pe_buy at clock reading t
check_pe_buy(i, t) ==
    IF pe_gate(i) # "PASS" THEN NoSignal
    ELSE IF pe_confidence(i) < MIN_CONFIDENCE THEN NoSignal
    ELSE [signal_type |-> "PE_BUY", timestamp |-> t,
          entry_price |-> pe_levels(i).entry,
          target_price |-> pe_levels(i).target,
          stop_loss |-> pe_levels(i).sl,
          recommended_strike |-> i.atm_strike,
          confidence |-> pe_confidence(i),
          primary_checks |-> pe_primary_passed(i),
          bonus_checks |-> pe_bonus_passed(i),
          vwap_score |-> pe_vwap(i).score,
          velocity |-> pe_velocity(i).pattern,
          is_expiry_day |-> i.gamma_zone]

\* SignalGenerator.generate at clock reading t
generate(i, t) ==
    IF check_market_timing(t) # "OK" THEN RaisedSignal
    ELSE IF detect_reversal(i.atm_ce_15m, i.atm_pe_15m, i.has_15m_atm) THEN NoSignal
    ELSE IF detect_trap(i.ce_total_15m, i.pe_total_15m, i.has_15m_total) THEN NoSignal
    ELSE IF check_ce_buy(i, t).signal_type # "NONE" THEN check_ce_buy(i, t)
    ELSE check_pe_buy(i, t)

(***************************************************************************)
(* The generator driven on its own: generate applied to inputs drawn from  *)
(* the sets below.                                                         *)
(***************************************************************************)
\* Clock readings: 10:00, and 15:00 where the session-close buffer starts.
GenTimes == {600, BUFFER_TIME}
\* The market the inputs are drawn around: VWAP 24000.00, ATR 10.00 points,
\* ATM strike 24150.
GenMarket == [vwap |-> 2400000, atr |-> 1000, atm_strike |-> 24150]
\* Futures price minus VWAP: below, on, 1.2 x ATR above, 10 x ATR above.
PriceOffsets == {-1200, 0, 1200, 10000}
PcrValues == {60, 100, 125}

\* <<5m, 15m, 30m>> total OI change of one side.
OIUnwinding == <<-60, -70, 0>>
OISteady == <<-60, -70, -70>>
OIFading == <<-60, -70, -90>>
OIMonster == <<-60, -90, -90>>
OISpike == <<0, 90, 0>>
OIFlat == <<0, 10, 0>>
OISideProfiles == {OIUnwinding, OISteady, OIFading, OIMonster, OISpike, OIFlat}
OIProfiles == OISideProfiles \X OISideProfiles

\* <<has_5m_total, has_15m_total, has_30m_total, has_15m_atm>>
FlagProfiles ==
    {<<TRUE, TRUE, TRUE, TRUE>>, <<TRUE, TRUE, FALSE, TRUE>>,
     <<TRUE, TRUE, FALSE, FALSE>>, <<TRUE, FALSE, FALSE, TRUE>>,
     <<FALSE, TRUE, FALSE, TRUE>>, <<FALSE, FALSE, FALSE, FALSE>>}

\* <<atm_ce_15m, atm_pe_15m>>
AtmProfiles == {<<-60, -55>>, <<-40, 0>>, <<0, -40>>, <<0, 0>>}

\* strike_data around the ATM strike: nothing significant, heavy put OI two
\* strikes below (support), heavy call OI two strikes above (resistance), both.
StrikeDataSet ==
    {<<>>,
     (GenMarket.atm_strike - 100) :> [ce_oi |-> 0, pe_oi |-> 1500000],
     (GenMarket.atm_strike + 100) :> [ce_oi |-> 1500000, pe_oi |-> 0],
     (GenMarket.atm_strike - 100) :> [ce_oi |-> 0, pe_oi |-> 1500000]
        @@ (GenMarket.atm_strike + 100) :> [ce_oi |-> 1500000, pe_oi |-> 0]}

NoScenario ==
    [present |-> FALSE, primary_direction |-> "NEUTRAL",
     ce_signal |-> "NEUTRAL", pe_signal |-> "NEUTRAL"]

\* The secondary inputs: none of the bonus checks, all of the bullish ones,
\* all of the bearish ones, and an expiry day with a weak scenario.
ExtrasNone ==
    [volume_ratio |-> 100, order_flow |-> 100, candle_size |-> 0,
     consecutive_green |-> 0, consecutive_red |-> 0, multi_tf |-> FALSE,
     gamma_zone |-> FALSE, vwap_distance |-> 0, oi_strength |-> "weak",
     oi_scenario |-> NoScenario]
ExtrasBull ==
    [volume_ratio |-> 300, order_flow |-> 50, candle_size |-> 500,
     consecutive_green |-> 2, consecutive_red |-> 0, multi_tf |-> TRUE,
     gamma_zone |-> TRUE, vwap_distance |-> 1200, oi_strength |-> "strong",
     oi_scenario |-> [present |-> TRUE, primary_direction |-> "BULLISH",
                      ce_signal |-> "STRONG_BULLISH", pe_signal |-> "NEUTRAL"]]
ExtrasBear ==
    [volume_ratio |-> 300, order_flow |-> 150, candle_size |-> 500,
     consecutive_green |-> 0, consecutive_red |-> 2, multi_tf |-> TRUE,
     gamma_zone |-> TRUE, vwap_distance |-> -1200, oi_strength |-> "strong",
     oi_scenario |-> [present |-> TRUE, primary_direction |-> "BEARISH",
                      ce_signal |-> "NEUTRAL", pe_signal |-> "STRONG_BEARISH"]]
ExtrasExpiry ==
    [volume_ratio |-> 100, order_flow |-> 100, candle_size |-> 0,
     consecutive_green |-> 0, consecutive_red |-> 0, multi_tf |-> FALSE,
     gamma_zone |-> TRUE, vwap_distance |-> 0, oi_strength |-> "medium",
     oi_scenario |-> [present |-> TRUE, primary_direction |-> "NEUTRAL",
                      ce_signal |-> "WEAK_BULLISH", pe_signal |-> "WEAK_BEARISH"]]
ExtrasProfiles == {ExtrasNone, ExtrasBull, ExtrasBear, ExtrasExpiry}

\* The keyword arguments of generate that the checks read.
GenInput(offset, pcr, oi, flags, atm, volume_spike, strike_data, extras) ==
    [futures_price |-> GenMarket.vwap + offset, vwap |-> GenMarket.vwap, atr |-> GenMarket.atr,
     vwap_distance |-> extras.vwap_distance, pcr |-> pcr,
     atm_strike |-> GenMarket.atm_strike, strike_data |-> strike_data,
     ce_total_5m |-> oi[1][1], ce_total_15m |-> oi[1][2], ce_total_30m |-> oi[1][3],
     pe_total_5m |-> oi[2][1], pe_total_15m |-> oi[2][2], pe_total_30m |-> oi[2][3],
     atm_ce_15m |-> atm[1], atm_pe_15m |-> atm[2],
     has_5m_total |-> flags[1], has_15m_total |-> flags[2],
     has_30m_total |-> flags[3], has_15m_atm |-> flags[4],
     volume_spike |-> volume_spike, volume_ratio |-> extras.volume_ratio,
     order_flow |-> extras.order_flow, candle_size |-> extras.candle_size,
     consecutive_green |-> extras.consecutive_green,
     consecutive_red |-> extras.consecutive_red,
     gamma_zone |-> extras.gamma_zone, multi_tf |-> extras.multi_tf,
     oi_strength |-> extras.oi_strength, oi_scenario |-> extras.oi_scenario]

GenInit ==
    /\ now \in GenTimes
    /\ \E offset \in PriceOffsets, pcr \in PcrValues, oi \in OIProfiles,
          flags \in FlagProfiles, atm \in AtmProfiles,
          volume_spike \in BOOLEAN, strike_data \in StrikeDataSet,
          extras \in ExtrasProfiles :
          /\ now = BUFFER_TIME => extras = ExtrasNone
          /\ inp = GenInput(offset, pcr, oi, flags, atm, volume_spike,
                            strike_data, extras)
    /\ sig = PendingSignal
    /\ history = <<>> /\ cmp = NoComparison
    /\ PctIdle /\ AnaIdle /\ ValIdle /\ BotIdle

GenGenerate ==
    /\ sig = PendingSignal
    /\ sig' = generate(inp, now)
    /\ UNCHANGED <<inp, trackerVars, pctVars, anaVars, valVars, botVars>>

GenNext == GenGenerate

SpecGen == GenInit /\ [][GenNext]_vars

\* generate has been called and has returned (a Signal or None).
Returned == sig \notin {PendingSignal, RaisedSignal}
ReversalValues(i) == i.atm_ce_15m < -50 /\ i.atm_pe_15m < -50
TrapValues(i) ==
    \/ Abs(i.ce_total_15m) > 80 /\ Abs(i.pe_total_15m) < 20
    \/ Abs(i.pe_total_15m) > 80 /\ Abs(i.ce_total_15m) < 20

\* C5: every Signal that generate returns has an integer confidence between
\* 0 and 98.
C5_ConfidenceRange ==
    sig.signal_type \in {"CE_BUY", "PE_BUY"} => sig.confidence \in 0..98

\* A returned signal whose summed score exceeded 98 before the cap.
C5_Witness ==
    /\ sig.signal_type = "CE_BUY"
    /\ sig.confidence = 98
    /\ ce_confidence_sum(inp) > 98

\* C6: with the futures price at or below VWAP no CE_BUY is produced, with
\* the futures price at or above VWAP no PE_BUY is produced.
C6_VwapSideGate ==
    Returned =>
        /\ inp.futures_price <= inp.vwap => sig.signal_type # "CE_BUY"
        /\ inp.futures_price >= inp.vwap => sig.signal_type # "PE_BUY"

\* A call candidate with the price exactly on VWAP that meets the quorum and
\* every gate before the side gate: nothing is returned.
C6_Witness ==
    /\ Returned /\ sig = NoSignal
    /\ now < BUFFER_TIME
    /\ inp.futures_price = inp.vwap
    /\ ~ReversalValues(inp) /\ ~TrapValues(inp)
    /\ ce_primary_passed(inp) >= MIN_PRIMARY_CHECKS
    /\ ~inp.has_30m_total

Scenario(i) ==
    /\ now < BUFFER_TIME
    /\ i.has_5m_total /\ i.has_15m_total
    /\ i.ce_total_5m = -60 /\ i.ce_total_15m = -70
    /\ i.atm_ce_15m = -40
    /\ i.atr > 0 /\ 10 * (i.futures_price - i.vwap) = 12 * i.atr
    /\ ~(i.has_15m_atm /\ ReversalValues(i))
    /\ ~TrapValues(i)
    /\ ce_primary_passed(i) >= MIN_PRIMARY_CHECKS

\* C10 (as stated): in the end-to-end scenario generate returns a CE_BUY with
\* confidence at least MIN_CONFIDENCE for every value of the other inputs.
C10_ScenarioYieldsCeBuy ==
    (Returned /\ Scenario(inp)) =>
        sig.signal_type = "CE_BUY" /\ sig.confidence >= MIN_CONFIDENCE

\* C10 (amended): in the end-to-end scenario generate returns a CE_BUY with
\* confidence at least MIN_CONFIDENCE provided the 30-minute lookback was not
\* found or the 30-minute total call OI change is at most 7% in magnitude.
C10_ScenarioWithoutFading ==
    (Returned /\ Scenario(inp)
        /\ (~inp.has_30m_total \/ Abs(inp.ce_total_30m) <= 70)) =>
        sig.signal_type = "CE_BUY" /\ sig.confidence >= MIN_CONFIDENCE

\* The scenario with a 30-minute change of -7% found, an overheated PCR and
\* call resistance above: the CE_BUY is still returned.
C10_Witness ==
    /\ Returned /\ Scenario(inp)
    /\ inp.has_30m_total /\ inp.ce_total_30m = -70
    /\ inp.pcr < PCR_OVERHEATED
    /\ analyze_otm_levels(inp.strike_data, inp.atm_strike, "CE_BUY") = -10
    /\ sig.signal_type = "CE_BUY"

FloorOffsets == {-1200, -100, 100, 1200}
FloorPcrValues == {60, 80, 100, 120, 140}
FloorOIProfiles == {OIUnwinding, OISpike, OIFlat} \X {OIUnwinding, OISpike, OIFlat}
FloorFlagProfiles ==
    {<<TRUE, TRUE, TRUE, TRUE>>, <<TRUE, TRUE, FALSE, TRUE>>,
     <<FALSE, FALSE, FALSE, FALSE>>}
\* ATR: 0.35 points and the 10.00 points of GenMarket.
FloorAtrs == {35, GenMarket.atr}

FloorInit ==
    /\ now \in GenTimes \ {BUFFER_TIME}
    /\ \E offset \in FloorOffsets, pcr \in FloorPcrValues, oi \in FloorOIProfiles,
          flags \in FloorFlagProfiles, atm \in AtmProfiles,
          volume_spike \in BOOLEAN, strike_data \in StrikeDataSet,
          extras \in ExtrasProfiles, atr \in FloorAtrs :
          inp = [GenInput(offset, pcr, oi, flags, atm, volume_spike,
                          strike_data, extras) EXCEPT !.atr = atr]
    /\ sig = PendingSignal
    /\ history = <<>> /\ cmp = NoComparison
    /\ PctIdle /\ AnaIdle /\ ValIdle /\ BotIdle

SpecFloor == FloorInit /\ [][GenNext]_vars

\* C29: the minimum-confidence floor is never the deciding gate: every CE or
\* PE candidate that passes the hard gates (timing, reversal, trap, VWAP side,
\* VWAP score and validity, velocity, quorum) has a confidence of at least
\* MIN_CONFIDENCE and is returned as a Signal, whatever the PCR, OTM, scenario
\* and bonus inputs are.
C29_FloorNeverDecides ==
    (Returned /\ ~ReversalValues(inp) /\ ~TrapValues(inp)) =>
        /\ ce_gate(inp) = "PASS" =>
              sig.signal_type = "CE_BUY" /\ sig.confidence >= MIN_CONFIDENCE
        /\ pe_gate(inp) = "PASS" => pe_confidence(inp) >= MIN_CONFIDENCE
        /\ (ce_gate(inp) # "PASS" /\ pe_gate(inp) = "PASS") =>
              sig.signal_type = "PE_BUY" /\ sig.confidence >= MIN_CONFIDENCE

\* The lowest-scoring candidate that passes the gates: ATM and volume checks
\* only, price one point above VWAP, overheated PCR, heavy call OI above,
\* no velocity data; it is returned with confidence 71.
C29_Witness ==
    /\ Returned /\ sig.signal_type = "CE_BUY"
    /\ sig.confidence = MIN_CONFIDENCE + 1
    /\ sig.primary_checks = MIN_PRIMARY_CHECKS
    /\ get_pcr_bias(inp.pcr).modifier = -10
    /\ analyze_otm_levels(inp.strike_data, inp.atm_strike, "CE_BUY") = -10

\* C30: every CE_BUY Signal has stop_loss < entry_price < target_price and
\* every PE_BUY Signal has target_price < entry_price < stop_loss, for every
\* ATR that passes the gates: risk and reward distances are strictly positive.
C30_LevelsOrdered ==
    Returned =>
        /\ sig.signal_type = "CE_BUY" =>
              sig.stop_loss < sig.entry_price /\ sig.entry_price < sig.target_price
        /\ sig.signal_type = "PE_BUY" =>
              sig.target_price < sig.entry_price /\ sig.entry_price < sig.stop_loss

Fading == {"DECELERATION", "EXHAUSTION"}

\* C23: no CE_BUY Signal is produced when the call side's velocity
\* classification is DECELERATION or EXHAUSTION, and no PE_BUY Signal when the
\* put side's is, whatever the other inputs and scores are.
C23_VelocityGate ==
    Returned =>
        /\ sig.signal_type = "CE_BUY" => ce_velocity(inp).pattern \notin Fading
        /\ sig.signal_type = "PE_BUY" => pe_velocity(inp).pattern \notin Fading

\* The call side is fading over 30 minutes while every other gate of the
\* CE check is passed with the full quorum, and generate returned None.
C23_Witness ==
    /\ Returned /\ sig.signal_type = "NONE"
    /\ ~ReversalValues(inp) /\ ~TrapValues(inp)
    /\ ce_velocity(inp).pattern = "DECELERATION"
    /\ inp.futures_price > inp.vwap
    /\ ce_vwap(inp).valid /\ ce_vwap(inp).score >= MIN_VWAP_SCORE
    /\ ce_primary_passed(inp) = 3
    /\ ce_confidence_sum(inp) - ce_velocity(inp).confidence >= MIN_CONFIDENCE + 20

(***************************************************************************)
(* PositionLifecycle.  PositionTracker (position_tracker.py) is imported   *)
(* and constructed by main.py but is not among the files of the            *)
(* repository; what follows is its design as section 4.5 of the            *)
(* specification gives it, with the trailing-stop fractions of config.py   *)
(* in percent.                                                             *)
(***************************************************************************)
ENABLE_TRAILING_SL == TRUE
TRAILING_SL_TRIGGER == 60
TRAILING_SL_DISTANCE == 40

\* The Position created for a validated Signal.
new_position(signal) ==
    [open |-> TRUE, signal_type |-> signal.signal_type,
     entry_price |-> signal.entry_price, target_price |-> signal.target_price,
     stop_loss |-> signal.stop_loss, price |-> signal.entry_price,
     close_reason |-> "NONE"]

\* Unrealized gain of the position at the given price.
unrealized_gain(pos, price) ==
    IF pos.signal_type = "CE_BUY" THEN price - pos.entry_price
    ELSE pos.entry_price - price

target_distance(pos) == Abs(pos.target_price - pos.entry_price)

\* The stop the trailing distance puts behind the given price.
trailed_stop(pos, price) ==
    LET distance == (TRAILING_SL_DISTANCE * target_distance(pos)) \div 100
    IN  IF pos.signal_type = "CE_BUY" THEN price - distance ELSE price + distance

\* The more favourable of two stops for the position's direction.
tighter_stop(pos, a, b) ==
    IF pos.signal_type = "CE_BUY" THEN Max(a, b) ELSE Min(a, b)

\* The trailing-stop update that sets the stop behind the current price
\* whenever the trigger is exceeded, wherever the stop stood.
update_trailing_stop_follows_price(pos, price) ==
    IF /\ ENABLE_TRAILING_SL
       /\ 100 * unrealized_gain(pos, price)
             > TRAILING_SL_TRIGGER * target_distance(pos)
    THEN trailed_stop(pos, price)
    ELSE pos.stop_loss

\* The trailing-stop update: once the unrealized gain exceeds the trigger
\* fraction of the target distance the stop is tightened toward the price,
\* and it never loosens.
update_trailing_stop(pos, price) ==
    IF /\ ENABLE_TRAILING_SL
       /\ 100 * unrealized_gain(pos, price)
             > TRAILING_SL_TRIGGER * target_distance(pos)
    THEN tighter_stop(pos, pos.stop_loss, trailed_stop(pos, price))
    ELSE pos.stop_loss

stop_loss_breached(pos, price) ==
    IF pos.signal_type = "CE_BUY" THEN price <= pos.stop_loss
    ELSE price >= pos.stop_loss

target_reached(pos, price) ==
    IF pos.signal_type = "CE_BUY" THEN price >= pos.target_price
    ELSE price <= pos.target_price

\* evaluateExit for one cycle: the exits in their priority order (the OI
\* reversal, candle rejection and holding-time exits arrive as other_exit),
\* then the trailing-stop update of a position that stays open.
evaluate_exit(pos, price, other_exit) ==
    IF ~pos.open THEN pos
    ELSE IF stop_loss_breached(pos, price)
    THEN [pos EXCEPT !.open = FALSE, !.price = price, !.close_reason = "stop_loss"]
    ELSE IF target_reached(pos, price)
    THEN [pos EXCEPT !.open = FALSE, !.price = price, !.close_reason = "target"]
    ELSE IF other_exit
    THEN [pos EXCEPT !.open = FALSE, !.price = price, !.close_reason = "other"]
    ELSE [pos EXCEPT !.price = price,
                     !.stop_loss = update_trailing_stop(pos, price)]

(***************************************************************************)
(* The position driven on its own: a position opened from a Signal of      *)
(* generate, then one price per cycle.                                     *)
(***************************************************************************)
\* Price updates of one position.
MaxPriceUpdates == 5

\* The Signal generate returns for an unwinding of both sides with the price
\* 1.2 x ATR on the side of VWAP that the direction needs.
EntrySignal(d, t) ==
    generate(GenInput(IF d = "CE_BUY" THEN 1200 ELSE -1200, 100,
                      <<OIUnwinding, OIUnwinding>>, <<TRUE, TRUE, FALSE, TRUE>>,
                      <<-40, -40>>, FALSE, <<>>, ExtrasNone), t)

\* Moves of the price from the entry price, counted in the position's favour:
\* to the initial stop, back and forth below the trigger, three levels past
\* the trigger, and to the target.
PriceMoves == {-1500, -500, 1000, 1750, 2000, 2250, 2500}

PriceAt(pos, move) ==
    IF pos.signal_type = "CE_BUY" THEN pos.entry_price + move
    ELSE pos.entry_price - move

PosInit ==
    /\ now = FIRST_DATA_TIME
    /\ \E d \in Directions :
          /\ current_signal = EntrySignal(d, now)
          /\ position = new_position(current_signal)
    /\ in_position = TRUE
    /\ open_positions = 1
    /\ is_running = TRUE
    /\ cycle = NoCycle
    /\ price_history = <<>>
    /\ history = <<>> /\ cmp = NoComparison
    /\ PctIdle /\ AnaIdle /\ GenIdle /\ ValIdle

PosUpdate ==
    /\ position.open
    /\ now < FIRST_DATA_TIME + MaxPriceUpdates
    /\ now' = now + 1
    /\ \E move \in PriceMoves, other_exit \in BOOLEAN :
          position' = evaluate_exit(position, PriceAt(position, move), other_exit)
    /\ UNCHANGED <<history, cmp, pctVars, anaVars, genVars, valVars>>
    /\ UNCHANGED <<in_position, current_signal, open_positions, is_running,
                    cycle, price_history>>

PosNext == PosUpdate

SpecPos == PosInit /\ [][PosNext]_vars

\* One stop is at least as favourable as another for the position.
NotLooser(pos, old, new) ==
    IF pos.signal_type = "CE_BUY" THEN new >= old ELSE new <= old

MaxScanMinutes == 22
MaxFailedCycles == 1

SCAN_INTERVAL == 1
MARKET_OPEN == 555
MARKET_CLOSE == 930
SIGNAL_START == 561
EARLY_SIGNAL_END == 571
EARLY_SIGNAL_CONFIDENCE == 85
PRICE_HISTORY_MINUTES == 1440
OI_BUILDUP_THRESHOLD == 30
OI_UNWINDING_THRESHOLD == -50
PRICE_UP == 5
PRICE_DOWN == -5

\* utils.is_market_open on a weekday
is_market_open(t) == MARKET_OPEN <= t /\ t <= MARKET_CLOSE

\* calculate_pcr without the ceiling.
calculate_pcr_uncapped(total_pe, total_ce) ==
    IF total_ce = 0
    THEN (IF total_pe = 0 THEN 100 ELSE 1000)
    ELSE RoundDiv(total_pe * 100, total_ce)

\* OIAnalyzer.calculate_pcr, in hundredths: round(min(pcr, 10.0), 2) is the
\* hundredth nearest to the quotient.  For a quotient exactly halfway between
\* two hundredths Python's result depends on the binary representation of the
\* quotient; the totals the model draws give no such quotient.
calculate_pcr(total_pe, total_ce) ==
    IF total_ce = 0
    THEN (IF total_pe = 0 THEN 100 ELSE 1000)
    ELSE Min(RoundDiv(total_pe * 100, total_ce), 1000)

\* analyze_oi_with_price: result['ce_signal']
oi_ce_signal(ce_5m, ce_15m, price_change_pct) ==
    IF /\ ce_5m > OI_BUILDUP_THRESHOLD /\ ce_15m > OI_BUILDUP_THRESHOLD
       /\ price_change_pct > PRICE_UP
    THEN "STRONG_BULLISH"
    ELSE IF /\ ce_5m < OI_UNWINDING_THRESHOLD /\ ce_15m < OI_UNWINDING_THRESHOLD
            /\ price_change_pct > PRICE_UP
    THEN "WEAK_BULLISH"
    ELSE IF /\ ce_5m < OI_UNWINDING_THRESHOLD /\ ce_15m < OI_UNWINDING_THRESHOLD
            /\ price_change_pct < PRICE_DOWN
    THEN "WEAK_BEARISH"
    ELSE "NEUTRAL"

\* analyze_oi_with_price: result['pe_signal']
oi_pe_signal(pe_5m, pe_15m, price_change_pct) ==
    IF /\ pe_5m > OI_BUILDUP_THRESHOLD /\ pe_15m > OI_BUILDUP_THRESHOLD
       /\ price_change_pct < PRICE_DOWN
    THEN "STRONG_BEARISH"
    ELSE IF /\ pe_5m < OI_UNWINDING_THRESHOLD /\ pe_15m < OI_UNWINDING_THRESHOLD
            /\ price_change_pct < PRICE_DOWN
    THEN "WEAK_BEARISH"
    ELSE IF /\ pe_5m < OI_UNWINDING_THRESHOLD /\ pe_15m < OI_UNWINDING_THRESHOLD
            /\ price_change_pct > PRICE_UP
    THEN "WEAK_BULLISH"
    ELSE "NEUTRAL"

\* OIAnalyzer.analyze_oi_with_price: the keys that generate reads
analyze_oi_with_price(ce_5m, ce_15m, pe_5m, pe_15m, price_change_pct) ==
    LET ce_signal == oi_ce_signal(ce_5m, ce_15m, price_change_pct)
        pe_signal == oi_pe_signal(pe_5m, pe_15m, price_change_pct)
        bullish == {"STRONG_BULLISH", "WEAK_BULLISH"}
        bearish == {"STRONG_BEARISH", "WEAK_BEARISH"}
    IN  [present |-> TRUE,
         ce_signal |-> ce_signal,
         pe_signal |-> pe_signal,
         primary_direction |->
            IF ce_signal \in bullish /\ pe_signal \in bullish THEN "STRONG_BULLISH"
            ELSE IF ce_signal \in bearish /\ pe_signal \in bearish THEN "STRONG_BEARISH"
            ELSE IF "STRONG_BULLISH" \in {ce_signal, pe_signal} THEN "BULLISH"
            ELSE IF "STRONG_BEARISH" \in {ce_signal, pe_signal} THEN "BEARISH"
            ELSE "NEUTRAL"]

\* scan_market: oi_strength from the 15-minute changes
scan_oi_strength(ce_15m, pe_15m) ==
    IF ce_15m < -STRONG_OI_15M_THRESHOLD \/ pe_15m < -STRONG_OI_15M_THRESHOLD
    THEN "strong"
    ELSE IF ce_15m < -MIN_OI_15M_FOR_ENTRY \/ pe_15m < -MIN_OI_15M_FOR_ENTRY
    THEN "medium"
    ELSE "weak"

\* get_status()['ready_15m'] of the tracker
ready_15m(h, t) == is_ready(h, t, 15)

\* scan_market: the percentage changes of reading r against the lookback
\* result prev
oi_changes(prev, r) ==
    IF prev.found
    THEN [found |-> TRUE,
          ce |-> scan_oi_change(r.total_ce, prev.total_ce),
          pe |-> scan_oi_change(r.total_pe, prev.total_pe),
          atm_ce |-> scan_oi_change(r.atm_ce, prev.atm_ce),
          atm_pe |-> scan_oi_change(r.atm_pe, prev.atm_pe)]
    ELSE [found |-> FALSE, ce |-> 0, pe |-> 0, atm_ce |-> 0, atm_pe |-> 0]

\* The option-chain readings of a cycle.  Open interest only unwinds during
\* a run: the calls, the puts, or one after the other, by 7% in total and 4%
\* at the money, so that every percentage change is a whole tenth.
ReadingFlat ==
    [total_ce |-> 1000, total_pe |-> 1000, atm_strike |-> GenMarket.atm_strike,
     atm_ce |-> 100, atm_pe |-> 100]
ReadingCallsUnwound == [ReadingFlat EXCEPT !.total_ce = 930, !.atm_ce = 96]
ReadingPutsUnwound == [ReadingFlat EXCEPT !.total_pe = 930, !.atm_pe = 96]
ReadingBothUnwound ==
    [ReadingFlat EXCEPT !.total_ce = 930, !.atm_ce = 96,
                        !.total_pe = 930, !.atm_pe = 96]
Readings ==
    {ReadingFlat, ReadingCallsUnwound, ReadingPutsUnwound, ReadingBothUnwound}

\* The minutes at which open interest may unwind (09:25, 09:28, 09:31), and
\* the minutes at which a cycle may fail once the history has started.
UnwindMinutes == {565, 568, 571}
FailureMinutes == {560, 566, 569}

\* The readings that can follow the last stored snapshot at minute t.
NextReadings(h, t) ==
    IF Len(h) = 0 THEN {ReadingFlat}
    ELSE {r \in Readings :
            /\ r.total_ce <= h[Len(h)].total_ce
            /\ r.total_pe <= h[Len(h)].total_pe
            /\ t \notin UnwindMinutes =>
                  /\ r.total_ce = h[Len(h)].total_ce
                  /\ r.total_pe = h[Len(h)].total_pe}

\* A cycle that saves no snapshot is within the bounds of the run; one that
\* saves the price before it fails happens at the failure minutes only.
FailureAllowed(h, t, price_saved) ==
    \/ Len(h) = 0 /\ ~price_saved
    \/ Len(h) > 0 /\ t \in FailureMinutes /\ Irregular(h, t) < MaxFailedCycles

\* What the futures candles and the live price of a cycle show: the price
\* 1.2 x ATR above VWAP after two green candles, or the mirror image.
TapeUp ==
    [futures_ltp |-> GenMarket.vwap + 1200, price_5m |-> 10, order_flow |-> 80,
     candle_size |-> 500, consecutive_green |-> 2, consecutive_red |-> 0]
TapeDown ==
    [futures_ltp |-> GenMarket.vwap - 1200, price_5m |-> -10, order_flow |-> 120,
     candle_size |-> 500, consecutive_green |-> 0, consecutive_red |-> 2]
Tapes == {TapeUp, TapeDown}

\* The minute at which the price may turn (09:28).
TurnMinutes == {568}

\* The tapes that can follow the last saved price at minute t.
NextTapes(ph, t) ==
    IF Len(ph) = 0 \/ t \in TurnMinutes THEN Tapes
    ELSE {tape \in Tapes : tape.futures_ltp = ph[Len(ph)].price}

\* What goes wrong in a cycle, if anything, in the order of scan_market: a
\* fetch that fails, or a call that raises for want of its collaborator
\* (the header names format_time_ist, MARKET_OPEN and get_status).
Failures ==
    {"none", "header", "no_spot", "no_candles", "no_ltp", "get_price_change",
     "no_chain", "get_status"}
\* How _execute_signal ends: normally, with the notification raising, or
\* with open_position raising.
Executions == {"ok", "notify_raises", "open_raises"}

ScanEnv(failure, reading, tape) ==
    [failure |-> failure, reading |-> reading, tape |-> tape]

\* scan_market: the keyword arguments it passes to generate, from the
\* reading r, the tape and the changes over 5, 15 and 30 minutes
build_kwargs(r, tape, c5, c15, c30) ==
    [futures_price |-> tape.futures_ltp, vwap |-> GenMarket.vwap,
     atr |-> GenMarket.atr,
     vwap_distance |-> tape.futures_ltp - GenMarket.vwap,
     pcr |-> calculate_pcr(r.total_pe, r.total_ce),
     atm_strike |-> r.atm_strike, strike_data |-> <<>>,
     ce_total_5m |-> c5.ce, ce_total_15m |-> c15.ce, ce_total_30m |-> c30.ce,
     pe_total_5m |-> c5.pe, pe_total_15m |-> c15.pe, pe_total_30m |-> c30.pe,
     atm_ce_15m |-> c15.atm_ce, atm_pe_15m |-> c15.atm_pe,
     has_5m_total |-> c5.found, has_15m_total |-> c15.found,
     has_30m_total |-> c30.found, has_15m_atm |-> c15.found,
     volume_spike |-> FALSE, volume_ratio |-> 100,
     order_flow |-> tape.order_flow,
     candle_size |-> tape.candle_size,
     consecutive_green |-> tape.consecutive_green,
     consecutive_red |-> tape.consecutive_red,
     gamma_zone |-> FALSE, multi_tf |-> c5.found /\ c15.found,
     oi_strength |-> scan_oi_strength(c15.ce, c15.pe),
     oi_scenario |-> analyze_oi_with_price(c5.ce, c15.ce, c5.pe, c15.pe,
                                           tape.price_5m)]

\* scan_market: the three lookbacks, taken before the snapshot is saved
scan_kwargs(h, t, env) ==
    build_kwargs(env.reading, env.tape,
                 oi_changes(get_comparison(h, t, 5), env.reading),
                 oi_changes(get_comparison(h, t, 15), env.reading),
                 oi_changes(get_comparison(h, t, 30), env.reading))

\* scan_market that never takes the "Already in position" return.
already_in_position_ignored(in_pos) == FALSE

\* scan_market: if self.in_position: return
already_in_position(in_pos) == in_pos

\* How a cycle of scan_market ends: the history it leaves, the arguments it
\* built, what generate and should_execute returned, and whether
\* _execute_signal is invoked.
ends(outcome, hist, args, s, c, v, x) ==
    [outcome |-> outcome, history |-> hist, inp |-> args, sig |-> s,
     candidate |-> c, verdict |-> v, executed |-> x]

\* A cycle that ends before the entry arguments are built.
quiet(outcome, hist) ==
    ends(outcome, hist, <<>>, PendingSignal, NoSignal, "NONE", FALSE)

\* scan_market from the early-signal filter on, for the Signal generate
\* returned and the validator's answer to it
scan_validate(saved, kwargs, early, signal, reason) ==
    IF early /\ signal.confidence < EARLY_SIGNAL_CONFIDENCE
    THEN ends("early_rejected", saved, kwargs, signal, NoSignal, "NONE", FALSE)
    ELSE IF ~Accepted(reason)
    THEN ends("rejected", saved, kwargs, signal, signal, reason, FALSE)
    ELSE ends("execute", saved, kwargs, signal, signal, reason, TRUE)

\* scan_market from the call of generate on
scan_signal(saved, kwargs, early, last, signal) ==
    IF signal = RaisedSignal
    THEN ends("raised", saved, kwargs, signal, NoSignal, "NONE", FALSE)
    ELSE IF signal = NoSignal
    THEN ends("no_setup", saved, kwargs, signal, NoSignal, "NONE", FALSE)
    ELSE scan_validate(saved, kwargs, early, signal,
                       should_execute(last, signal))

\* scan_market from the in-position check on
scan_entry(t, saved, kwargs, in_pos, last, is_fully_warmed, is_early_time) ==
    IF already_in_position(in_pos)
    THEN ends("in_position", saved, kwargs, PendingSignal, NoSignal,
              "NONE", FALSE)
    ELSE IF ~is_fully_warmed /\ ~is_early_time
    THEN quiet("warmup", saved)
    ELSE scan_signal(saved, kwargs, is_early_time /\ ~is_fully_warmed, last,
                     generate(kwargs, t))

\* scan_market from the saving of the snapshot on
scan_saved(t, saved, kwargs, in_pos, last, failure) ==
    IF failure = "get_status" THEN quiet("raised", saved)
    ELSE scan_entry(t, saved, kwargs, in_pos, last, ready_15m(saved, t),
                    SIGNAL_START <= t /\ t < EARLY_SIGNAL_END)

\* RedisBrain.save_price: the entry appended to price_history, and the
\* entries older than 24 hours dropped
save_price(ph, t, price) ==
    SelectSeq(Append(ph, [timestamp |-> t, price |-> price]),
              LAMBDA e : e.timestamp > t - PRICE_HISTORY_MINUTES)

\* scan_market: whether the cycle gets as far as self.memory.save_price
reaches_save_price(t, failure) ==
    /\ failure # "header"
    /\ is_market_open(t)
    /\ failure \notin {"no_spot", "no_candles", "no_ltp"}

\* scan_market: the price history the cycle leaves
scan_price_history(ph, t, failure, tape) ==
    IF reaches_save_price(t, failure)
    THEN save_price(ph, t, tape.futures_ltp)
    ELSE ph

\* scan_market up to the call of _execute_signal
scan_market(h, t, in_pos, last, env) ==
    IF env.failure = "header" THEN quiet("raised", h)
    ELSE IF ~is_market_open(t) THEN quiet("closed", h)
    ELSE IF env.failure \in {"no_spot", "no_candles", "no_ltp"}
    THEN quiet(env.failure, h)
    ELSE IF env.failure = "get_price_change" THEN quiet("raised", h)
    ELSE IF env.failure = "no_chain" THEN quiet("no_chain", h)
    ELSE scan_saved(t,
                    save_snapshot(h, t, env.reading.total_ce,
                                  env.reading.total_pe, env.reading.atm_strike,
                                  env.reading.atm_ce, env.reading.atm_pe),
                    scan_kwargs(h, t, env), in_pos, last, env.failure)

\* PositionTracker.open_position: one more open position
open_position(opened, signal) == opened + 1

\* NiftyTradingBot._execute_signal
execute_signal(signal, last, in_pos, cur, opened, pos, execution) ==
    IF execution = "notify_raises"
    THEN [last_signal |-> last, in_position |-> in_pos,
          current_signal |-> cur, open_positions |-> opened,
          position |-> pos]
    ELSE IF execution = "open_raises"
    THEN [last_signal |-> record_signal(signal), in_position |-> in_pos,
          current_signal |-> cur, open_positions |-> opened,
          position |-> pos]
    ELSE [last_signal |-> record_signal(signal), in_position |-> TRUE,
          current_signal |-> signal,
          open_positions |-> open_position(opened, signal),
          position |-> new_position(signal)]

\* NiftyTradingBot.__init__, one minute before the market opens
Init ==
    /\ now = MARKET_OPEN - 1
    /\ history = <<>> /\ cmp = NoComparison
    /\ PctIdle /\ AnaIdle /\ GenIdle /\ ValIdle /\ BotIdle

\* run: self.is_running = True
Run ==
    /\ ~is_running /\ cycle.phase = "init"
    /\ is_running' = TRUE
    /\ cycle' = [cycle EXCEPT !.phase = "scan"]
    /\ UNCHANGED <<trackerVars, pctVars, anaVars, genVars, valVars>>
    /\ UNCHANGED <<in_position, current_signal, open_positions, position,
                    price_history>>

\* The bot after _execute_signal ended the way e describes.
Executed(e) ==
    /\ last_signal' = e.last_signal
    /\ in_position' = e.in_position
    /\ current_signal' = e.current_signal
    /\ open_positions' = e.open_positions
    /\ position' = e.position

\* scan_market without its "except Exception": what a cycle raises leaves it.
scan_propagates_raised(outcome) == outcome = "raised"

\* scan_market: "except Exception" logs the error of a cycle that raised
\* and lets nothing out to run.
scan_propagates(outcome) == FALSE

\* The bot after a cycle of scan_market that ended the way r describes; an
\* exception that left scan_market would end run through shutdown.
Scanned(r) ==
    /\ r.history = history =>
          FailureAllowed(history, now, price_history' # price_history)
    /\ is_running' = ~scan_propagates(r.outcome)
    /\ history' = r.history
    /\ inp' = r.inp
    /\ sig' = r.sig
    /\ candidate' = r.candidate
    /\ verdict' = r.verdict
    /\ cycle' = [phase |-> IF scan_propagates(r.outcome) THEN "stopped"
                           ELSE "sleep",
                 outcome |-> r.outcome,
                 started_in_position |-> in_position,
                 executed |-> r.executed]
    /\ IF r.executed
       THEN \E execution \in Executions :
              Executed(execute_signal(r.candidate, last_signal, in_position,
                                      current_signal, open_positions,
                                      position, execution))
       ELSE UNCHANGED <<last_signal, in_position, current_signal,
                        open_positions, position>>

\* run: await self.scan_market()
ScanMarket ==
    /\ is_running /\ cycle.phase = "scan"
    /\ \E failure \in Failures, reading \in NextReadings(history, now),
          tape \in NextTapes(price_history, now) :
          /\ price_history' = scan_price_history(price_history, now, failure,
                                                 tape)
          /\ Scanned(scan_market(history, now, in_position, last_signal,
                                 ScanEnv(failure, reading, tape)))
    /\ UNCHANGED <<now, cmp, pctVars, anaVars>>

\* run: await asyncio.sleep(SCAN_INTERVAL)
Sleep ==
    /\ is_running /\ cycle.phase = "sleep"
    /\ now < MARKET_OPEN - 1 + MaxScanMinutes
    /\ now' = now + SCAN_INTERVAL
    /\ cycle' = [cycle EXCEPT !.phase = "scan"]
    /\ UNCHANGED <<history, cmp, pctVars, anaVars, genVars, valVars>>
    /\ UNCHANGED <<in_position, current_signal, open_positions, is_running,
                    position, price_history>>

Next == Run \/ ScanMarket \/ Sleep

Spec == Init /\ [][Next]_vars

\* C1: at most one position is open, and _execute_signal is never invoked in
\* a scan cycle that started with in_position = True.
C1_AtMostOnePosition ==
    /\ open_positions <= 1
    /\ cycle.executed => ~cycle.started_in_position

\* A position is open and a later cycle, whose arguments would have produced
\* a Signal that the validator accepts, ends at the in-position check.
C1_Witness ==
    /\ open_positions = 1 /\ in_position
    /\ cycle.outcome = "in_position" /\ cycle.started_in_position
    /\ generate(inp, now).signal_type \in {"CE_BUY", "PE_BUY"}
    /\ Accepted(should_execute(last_signal, generate(inp, now)))

\* C12 (as stated): the validator's cooldown reference (last signal time,
\* strike and direction) is recorded at the exit event of a position, not at
\* its entry: it changes only in a step that closes a position.
C12_CooldownKeyedOnExit ==
    [][last_signal' # last_signal => (in_position /\ ~in_position')]_vars

\* C13 (as stated): a completed scan cycle that runs while a position is open
\* evaluates its exit conditions, and once the price has breached the stop
\* loss or reached the target the bot is back in the no-position state.
C13_ExitReturnsToNoPosition ==
    (/\ cycle.outcome = "in_position"
     /\ \/ stop_loss_breached(current_signal, inp.futures_price)
        \/ target_reached(current_signal, inp.futures_price))
        => ~in_position

\* The returns of scan_market that follow a failed fetch.
FetchFailures == {"no_spot", "no_candles", "no_ltp", "no_chain"}

\* C14 (as stated): a scan cycle in which a required fetch fails (spot,
\* futures candles, futures LTP or option chain) appends nothing to the OI
\* history nor to the price history, generates no Signal and changes neither
\* in_position nor the validator state.
C14_FailedFetchChangesNothing ==
    [][(cycle.phase = "scan" /\ cycle'.phase = "sleep"
            /\ cycle'.outcome \in FetchFailures) =>
          /\ history' = history
          /\ price_history' = price_history
          /\ sig' = PendingSignal
          /\ in_position' = in_position
          /\ last_signal' = last_signal]_vars

\* C16: whenever a scan cycle fails (a fetch fails or an exception is raised
\* anywhere inside scan_market) run stays in its loop with is_running True,
\* sleeps SCAN_INTERVAL and starts the next cycle; the loop is left by no
\* sequence of failing cycles.
C16_SchedulerSurvives ==
    /\ cycle.phase # "init" => (is_running /\ cycle.phase \in {"scan", "sleep"})
    /\ (cycle.phase = "sleep" /\ now < MARKET_OPEN - 1 + MaxScanMinutes)
          => ENABLED Sleep

\* Every cycle since the market opened has failed, the last one by raising,
\* four minutes into the session, and the loop is about to scan again.
C16_Witness ==
    /\ is_running /\ cycle.phase = "scan"
    /\ cycle.outcome = "raised"
    /\ history = <<>> /\ price_history = <<>>
    /\ now >= MARKET_OPEN + 4

\* C28: _execute_signal is atomic with respect to the validator: the
\* validator's cooldown state changes only in an execution that also opens the
\* position and sets in_position; an execution that fails before the position
\* is opened leaves last_signal and in_position unchanged.
C28_ExecutionAtomic ==
    [][last_signal' # last_signal =>
          /\ ~in_position /\ in_position'
          /\ open_positions' = open_positions + 1
          /\ current_signal' = sig']_vars

\* C20: a scan cycle whose futures last-traded price is unavailable while the
\* spot price and the futures candles were fetched does not abort: it goes on
\* with the spot price in place of the futures price, so the cycle saves its
\* price sample and its OI snapshot for the current minute.
C20_LtpFallsBackToSpot ==
    [][(cycle.phase = "scan" /\ cycle'.phase = "sleep"
            /\ cycle'.outcome = "no_ltp") =>
          /\ price_history' # price_history
          /\ Len(history') > 0
          /\ history'[Len(history')].timestamp = now]_vars

(***************************************************************************)
(* The analyzers driven on their own: each static method of analyzers.py   *)
(* applied once to arguments drawn from the sets below.                    *)
(***************************************************************************)
EXIT_OI_REVERSAL_THRESHOLD == 30
EXIT_OI_CONFIRMATION_CANDLES == 2
EXIT_OI_SPIKE_THRESHOLD == 80
EXIT_OI_STRONG_AVERAGE == 50

RECURSIVE SeqSum(_)
SeqSum(s) == IF Len(s) = 0 THEN 0 ELSE s[1] + SeqSum(Tail(s))

\* oi_changes_history[-EXIT_OI_CONFIRMATION_CANDLES:]
LastReadings(h) == SubSeq(h, Len(h) - EXIT_OI_CONFIRMATION_CANDLES + 1, Len(h))

\* OIAnalyzer.check_oi_reversal: (reversal, strength, value); value is the
\* fraction num / den in tenths of a percent, the description is left out.
check_oi_reversal(signal_type, oi_changes_history, threshold) ==
    IF Len(oi_changes_history) < EXIT_OI_CONFIRMATION_CANDLES
    THEN [reversal |-> FALSE, strength |-> "none", value |-> [num |-> 0, den |-> 1]]
    ELSE LET recent == LastReadings(oi_changes_history)
             current == recent[Len(recent)]
             building_count == Cardinality({k \in 1..Len(recent) : recent[k] > threshold})
         IN  IF building_count >= EXIT_OI_CONFIRMATION_CANDLES
             THEN [reversal |-> TRUE,
                   strength |-> IF SeqSum(recent) > EXIT_OI_STRONG_AVERAGE * Len(recent)
                                THEN "strong" ELSE "medium",
                   value |-> [num |-> SeqSum(recent), den |-> Len(recent)]]
             ELSE IF current > EXIT_OI_SPIKE_THRESHOLD
             THEN [reversal |-> TRUE, strength |-> "spike",
                   value |-> [num |-> current, den |-> 1]]
             ELSE [reversal |-> FALSE, strength |-> "none",
                   value |-> [num |-> current, den |-> 1]]

\* Days are counted from a Monday: date.weekday() of day d.
weekday(d) == d % 7
TUESDAY == 1

\* config.get_next_weekly_expiry evaluated on the local date today.
get_next_weekly_expiry(today) ==
    LET days_ahead == TUESDAY - weekday(today)
    IN  IF days_ahead <= 0 THEN today + days_ahead + 7 ELSE today + days_ahead

\* MarketAnalyzer.detect_gamma_zone: today is the date in IST, the expiry is
\* computed from the date of the machine's local clock.
detect_gamma_zone(today, local_today) == today = get_next_weekly_expiry(local_today)

\* OI changes of one side over 15 and 30 minutes, in tenths of a percent:
\* around the acceleration, deceleration, monster and exhaustion thresholds.
VelocityChanges == {-95, -90, -85, -65, -55, -15, 0, 15, 55, 65, 85, 90, 95}
\* Per-cycle OI readings of an open position, in tenths of a percent.
ReversalReadings == {-20, 25, 35, 60, 90}
ReversalHistories ==
    {<<>>} \cup {<<a>> : a \in ReversalReadings}
          \cup {<<a, b>> : a \in ReversalReadings, b \in ReversalReadings}
          \cup {<<a, b, c>> : a \in ReversalReadings, b \in ReversalReadings,
                              c \in ReversalReadings}
\* Total put and call open interest.
PcrTotals == {0, 1, 3, 7, 100, 999, 1000, 1001, 25000, 260000}
\* Two weeks of dates; the machine's local date is the IST date or a day
\* on either side of it.
Dates == 7..20
LocalDates(today) == {today - 1, today, today + 1}
\* VWAP validation: price minus VWAP in multiples of a tenth of the ATR.
VwapAtrs == {0, 40, 1000, 2500}
VwapSteps == -100..100

Call(fn, args) == [fn |-> fn, args |-> args, done |-> FALSE, result |-> <<>>]
Answer(result) == [analysis EXCEPT !.done = TRUE, !.result = result]

AnaInit ==
    /\ analysis \in
         {Call("classify_oi_velocity",
               [oi_5m |-> a, oi_15m |-> b, oi_30m |-> c, has_30m |-> h]) :
             a \in {-60, 0}, b \in VelocityChanges, c \in VelocityChanges,
             h \in BOOLEAN}
         \cup {Call("check_oi_reversal",
                    [signal_type |-> d, oi_changes_history |-> h]) :
                 d \in {"CE_BUY", "PE_BUY"}, h \in ReversalHistories}
         \cup {Call("calculate_pcr", [total_pe |-> p, total_ce |-> c]) :
                 p \in PcrTotals, c \in PcrTotals}
         \cup UNION {{Call("detect_gamma_zone",
                           [today |-> d, local_today |-> l]) :
                         l \in LocalDates(d)} : d \in Dates}
         \cup {Call("validate_signal_with_vwap",
                    [signal_type |-> d, vwap |-> GenMarket.vwap, atr |-> a,
                     spot |-> GenMarket.vwap + (k * a) \div 10]) :
                 d \in {"CE_BUY", "PE_BUY"}, a \in VwapAtrs, k \in VwapSteps}
    /\ TrackerIdle /\ PctIdle /\ GenIdle /\ ValIdle /\ BotIdle

AnaVelocity ==
    /\ analysis.fn = "classify_oi_velocity" /\ ~analysis.done
    /\ analysis' = Answer(classify_oi_velocity(analysis.args.oi_5m,
                              analysis.args.oi_15m, analysis.args.oi_30m,
                              analysis.args.has_30m))
    /\ UNCHANGED <<trackerVars, pctVars, genVars, valVars, botVars>>

AnaReversal ==
    /\ analysis.fn = "check_oi_reversal" /\ ~analysis.done
    /\ analysis' = Answer(check_oi_reversal(analysis.args.signal_type,
                              analysis.args.oi_changes_history,
                              EXIT_OI_REVERSAL_THRESHOLD))
    /\ UNCHANGED <<trackerVars, pctVars, genVars, valVars, botVars>>

AnaPcr ==
    /\ analysis.fn = "calculate_pcr" /\ ~analysis.done
    /\ analysis' = Answer(calculate_pcr(analysis.args.total_pe,
                                        analysis.args.total_ce))
    /\ UNCHANGED <<trackerVars, pctVars, genVars, valVars, botVars>>

AnaGamma ==
    /\ analysis.fn = "detect_gamma_zone" /\ ~analysis.done
    /\ analysis' = Answer(detect_gamma_zone(analysis.args.today,
                                            analysis.args.local_today))
    /\ UNCHANGED <<trackerVars, pctVars, genVars, valVars, botVars>>

AnaVwap ==
    /\ analysis.fn = "validate_signal_with_vwap" /\ ~analysis.done
    /\ analysis' = Answer(validate_signal_with_vwap(analysis.args.signal_type,
                              analysis.args.spot, analysis.args.vwap,
                              analysis.args.atr))
    /\ UNCHANGED <<trackerVars, pctVars, genVars, valVars, botVars>>

AnaNext == AnaVelocity \/ AnaReversal \/ AnaPcr \/ AnaGamma \/ AnaVwap

SpecAna == AnaInit /\ [][AnaNext]_vars

Asked(fn) == analysis.fn = fn /\ analysis.done

\* C21: classify_oi_velocity returns MONSTER_LOADING for every input with
\* 30-minute data in which |oi_15m| > VELOCITY_MONSTER_15M and
\* |oi_30m| > VELOCITY_MONSTER_30M.
C21_MonsterLoadingFirst ==
    (/\ Asked("classify_oi_velocity") /\ analysis.args.has_30m
     /\ Abs(analysis.args.oi_15m) > VELOCITY_MONSTER_15M
     /\ Abs(analysis.args.oi_30m) > VELOCITY_MONSTER_30M)
        => analysis.result.pattern = "MONSTER_LOADING"

\* C22: classify_oi_velocity returns EXHAUSTION for every input with
\* 30-minute data in which |oi_30m| > VELOCITY_EXHAUSTION_30M and
\* |oi_15m| < VELOCITY_EXHAUSTION_15M.
C22_ExhaustionClassified ==
    (/\ Asked("classify_oi_velocity") /\ analysis.args.has_30m
     /\ Abs(analysis.args.oi_30m) > VELOCITY_EXHAUSTION_30M
     /\ Abs(analysis.args.oi_15m) < VELOCITY_EXHAUSTION_15M)
        => analysis.result.pattern = "EXHAUSTION"

\* C24: for every non-empty history of per-cycle OI readings,
\* check_oi_reversal reports a reversal if and only if the last
\* EXIT_OI_CONFIRMATION_CANDLES readings all exceed the reversal threshold or
\* the latest reading exceeds EXIT_OI_SPIKE_THRESHOLD, the spike also when
\* fewer than EXIT_OI_CONFIRMATION_CANDLES readings exist.
C24_ReversalOrSpike ==
    (Asked("check_oi_reversal") /\ Len(analysis.args.oi_changes_history) > 0) =>
        LET h == analysis.args.oi_changes_history
            sustained ==
                /\ Len(h) >= EXIT_OI_CONFIRMATION_CANDLES
                /\ \A k \in 1..Len(h) :
                      k > Len(h) - EXIT_OI_CONFIRMATION_CANDLES
                          => h[k] > EXIT_OI_REVERSAL_THRESHOLD
            spike == h[Len(h)] > EXIT_OI_SPIKE_THRESHOLD
        IN  analysis.result.reversal <=> (sustained \/ spike)

\* C25: detect_gamma_zone returns True on a weekly-expiry session (today, in
\* IST, is the Tuesday of the weekly expiry), so that the Signals of that
\* session take ATR_SL_GAMMA_MULTIPLIER for their stop, and False on every
\* other day.
C25_ExpirySessionDetected ==
    Asked("detect_gamma_zone") =>
        (analysis.result <=> weekday(analysis.args.today) = TUESDAY)

\* C26: calculate_pcr returns totalPutOI / totalCallOI (to the nearest
\* hundredth) capped at the ceiling 10.0 for all non-negative totals: the
\* result never exceeds 10.0, is 1.0 when both totals are zero and is the
\* ceiling when only the call total is zero.
C26_PcrCapped ==
    Asked("calculate_pcr") =>
        LET pe == analysis.args.total_pe
            ce == analysis.args.total_ce
            pcr == analysis.result
        IN  /\ pcr <= 1000
            /\ (ce = 0 /\ pe = 0) => pcr = 100
            /\ (ce = 0 /\ pe > 0) => pcr = 1000
            /\ (ce > 0 /\ pe * 100 >= 1000 * ce) => pcr = 1000
            /\ (ce > 0 /\ pe * 100 < 1000 * ce) => 2 * Abs(pcr * ce - pe * 100) <= ce

\* The quotient 1001 / 100 = 10.01 is above the ceiling and 10.0 is returned.
C26_Witness ==
    /\ Asked("calculate_pcr")
    /\ analysis.args.total_ce = 100 /\ analysis.args.total_pe = 1001
    /\ analysis.result = 1000

\* C27: validate_signal_with_vwap returns valid = False with score 0 for
\* every candidate whose price is farther from VWAP than
\* VWAP_DISTANCE_MAX_ATR_MULTIPLE x ATR, in both directions, so that no Signal
\* is produced there, and a score in 0..100 otherwise.
C27_VwapAcceptanceBand ==
    (Asked("validate_signal_with_vwap") /\ analysis.args.atr > 0) =>
        /\ Abs(analysis.args.spot - analysis.args.vwap)
              > VWAP_DISTANCE_MAX_ATR_MULTIPLE * analysis.args.atr
              => analysis.result = [valid |-> FALSE, score |-> 0]
        /\ analysis.result.score \in 0..100

====
